---- MODULE Spec2Model ----
(***************************************************************************)
(* A model of the A/B firmware-update configuration parser (src/lib.rs).  *)
(* Texts are sequences of one-character strings.  A parser result is one   *)
(* of                                                                      *)
(*   Ok(rest, value)   - nom's Ok((rest, value))                           *)
(*   Err(input, code)  - nom's Err(Err::Error(Error { input, code }))      *)
(*   Panic(msg)        - the call did not return: a Rust panic             *)
(* An Option is a sequence of length 0 (None) or 1 (Some).  A u32 is a     *)
(* pair <<hi, lo>> of 16-bit limbs, so that the 32-bit overflow test of    *)
(* str::parse::<u32> is computed exactly.                                  *)
(***************************************************************************)
EXTENDS Integers, Sequences, FiniteSets, TLC

VARIABLES
  conf,    \* the records a text was written from (round trip), or NoConf
  input,   \* the text handed to the parser
  called,  \* the parser that was called on input, "none" before the call
  result   \* what the call produced

vars == <<conf, input, called, result>>

(***************************************************************************)
(* Results                                                                 *)
(***************************************************************************)
Ok(rest, value) == [kind |-> "Ok", rest |-> rest, value |-> value]

Err(i, code) == [kind |-> "Err", input |-> i, code |-> code]

Panic(msg) == [kind |-> "Panic", msg |-> msg]

NoResult == [kind |-> "NotCalled"]

None == << >>

Some(x) == <<x>>

(***************************************************************************)
(* The literals of the grammar                                             *)
(***************************************************************************)
TagActive == <<"[", "a", "c", "t", "i", "v", "e", "]">>

TagPassive == <<"[", "p", "a", "s", "s", "i", "v", "e", "]">>

TagImageName == <<"i", "m", "a", "g", "e", "_", "n", "a", "m", "e", "=">>

TagItb == <<".", "i", "t", "b">>

TagImageVersion == <<"i", "m", "a", "g", "e", "_", "v", "e", "r", "s", "i", "o", "n", "=">>

TagVer == <<"v", "e", "r">>

TagUnderscore == <<"_">>

TagUpdateStatus == <<"u", "p", "d", "a", "t", "e", "_", "s", "t", "a", "t", "u", "s", "=">>

TagUpdating == <<"u", "p", "d", "a", "t", "i", "n", "g">>

TagTesting == <<"t", "e", "s", "t", "i", "n", "g">>

TagSuccess == <<"s", "u", "c", "c", "e", "s", "s">>

TagReadyForUpdate == <<"r", "e", "a", "d", "y", "_", "f", "o", "r", "_", "u", "p", "d", "a", "t", "e", "_", "f", "l", "a", "g", "=">>

TagTrue == <<"t", "r", "u", "e">>

TagFalse == <<"f", "a", "l", "s", "e">>

(***************************************************************************)
(* Character classes (nom's AsChar for char: ASCII only)                   *)
(***************************************************************************)
Digits == <<"0", "1", "2", "3", "4", "5", "6", "7", "8", "9">>

IsDigit(c) == \E k \in 1..10 : Digits[k] = c

DigitValue(c) == (CHOOSE k \in 1..10 : Digits[k] = c) - 1

IsAlpha(c) ==
  c \in {"a", "b", "c", "d", "e", "f", "g", "h", "i", "j", "k", "l", "m",
         "n", "o", "p", "q", "r", "s", "t", "u", "v", "w", "x", "y", "z",
         "A", "B", "C", "D", "E", "F", "G", "H", "I", "J", "K", "L", "M",
         "N", "O", "P", "Q", "R", "S", "T", "U", "V", "W", "X", "Y", "Z"}

IsAlphanum(c) == IsAlpha(c) \/ IsDigit(c)

IsMultispace(c) == c \in {" ", "\t", "\r", "\n"}

(***************************************************************************)
(* Slices                                                                  *)
(***************************************************************************)
Take(i, n) == SubSeq(i, 1, n)

Drop(i, n) == SubSeq(i, n + 1, Len(i))

StartsWith(i, t) == Len(i) >= Len(t) /\ Take(i, Len(t)) = t

(***************************************************************************)
(* Primitive matchers                                                      *)
(***************************************************************************)
\* nom::bytes::complete::tag
Tag(t, i) == IF StartsWith(i, t) THEN Ok(Drop(i, Len(t)), t) ELSE Err(i, "Tag")

\* InRun with the hyphen forgotten in the name run
InRunNoHyphen(c, run) ==
  IF run = "multispace" THEN IsMultispace(c)
  ELSE IF run = "digit" THEN IsDigit(c)
  ELSE IsAlphanum(c)

\* The predicates handed to split_at_position*_complete say where a run
\* stops; InRun is their negation for the three runs of the grammar.
InRun(c, run) ==
  IF run = "multispace" THEN IsMultispace(c)
  ELSE IF run = "digit" THEN IsDigit(c)
  ELSE c = "-" \/ IsAlphanum(c)

\* the length of the longest prefix of i made of characters of the run
RunLength(i, run) ==
  IF \E k \in 1..Len(i) : ~InRun(i[k], run)
  THEN (CHOOSE k \in 1..Len(i) :
          ~InRun(i[k], run) /\ \A j \in 1..(k - 1) : InRun(i[j], run)) - 1
  ELSE Len(i)

\* split_at_position_complete: a possibly empty run, never an error
SplitAtPositionComplete(i, run) ==
  LET n == RunLength(i, run) IN Ok(Drop(i, n), Take(i, n))

\* split_at_position1_complete: an empty run is an error of kind e
SplitAtPosition1Complete(i, run, e) ==
  LET n == RunLength(i, run)
  IN IF n = 0 THEN Err(i, e) ELSE Ok(Drop(i, n), Take(i, n))

multispace0(i) == SplitAtPositionComplete(i, "multispace")

digit0(i) == SplitAtPositionComplete(i, "digit")

alphanumericwithhypen(i) == SplitAtPosition1Complete(i, "alnumhyphen", "AlphaNumeric")

(***************************************************************************)
(* Value conversions                                                       *)
(***************************************************************************)
Aborts == "aborts"

\* ConfigKeys::from with the two arms exchanged
ConfigKeysFromSwapped(s) ==
  IF s = TagActive THEN "Passive"
  ELSE IF s = TagPassive THEN "Active"
  ELSE Aborts

\* impl From<&str> for ConfigKeys
ConfigKeysFrom(s) ==
  IF s = TagActive THEN "Active"
  ELSE IF s = TagPassive THEN "Passive"
  ELSE Aborts

\* UpdateStatus::from with a misspelt literal in its third arm
UpdateStatusFromTypo(s) ==
  IF s = TagUpdating THEN "Updating"
  ELSE IF s = TagTesting THEN "Testing"
  ELSE IF s = <<"s", "u", "c", "e", "s", "s">> THEN "Success"
  ELSE Aborts

\* impl From<&str> for UpdateStatus
UpdateStatusFrom(s) ==
  IF s = TagUpdating THEN "Updating"
  ELSE IF s = TagTesting THEN "Testing"
  ELSE IF s = TagSuccess THEN "Success"
  ELSE Aborts

\* bool::from_str: Some(b) or None
BoolFromStr(s) ==
  IF s = TagTrue THEN Some(TRUE)
  ELSE IF s = TagFalse THEN Some(FALSE)
  ELSE None

LimbBase == 65536

\* One step of the digit loop of u32::from_str: acc * 10 + d with the
\* overflow checks of checked_mul and checked_add; None on overflow.
U32PushDigit(acc, d) ==
  IF acc = None THEN None
  ELSE LET lo10 == acc[1][2] * 10 + d
           hi10 == acc[1][1] * 10 + (lo10 \div LimbBase)
       IN IF hi10 >= LimbBase THEN None ELSE Some(<<hi10, lo10 % LimbBase>>)

RECURSIVE U32Digits(_, _)
U32Digits(acc, s) ==
  IF s = << >> THEN acc
  ELSE U32Digits(U32PushDigit(acc, DigitValue(Head(s))), Tail(s))

\* the digits parsed as an i32 instead: overflow from 2^31 on
ParseI32(s) ==
  IF s = << >> THEN None
  ELSE IF U32Digits(Some(<<0, 0>>), s) = None THEN None
  ELSE IF U32Digits(Some(<<0, 0>>), s)[1][1] >= 32768 THEN None
  ELSE U32Digits(Some(<<0, 0>>), s)

\* str::parse::<u32> on a run of ASCII digits: None on an empty run
\* (IntErrorKind::Empty) and on overflow (IntErrorKind::PosOverflow)
ParseU32(s) == IF s = << >> THEN None ELSE U32Digits(Some(<<0, 0>>), s)

(***************************************************************************)
(* Parsers as values.  A nom parser is a closure; here it is a record     *)
(* naming the combinator and its arguments, and Run applies it to a text.  *)
(***************************************************************************)
tag(t) == [op |-> "tag", t |-> t]

Fn(name) == [op |-> "fn", name |-> name]

alt(ps) == [op |-> "alt", ps |-> ps]

tuple(ps) == [op |-> "tuple", ps |-> ps]

preceded(a, b) == [op |-> "preceded", ps |-> <<a, b>>]

separated_pair(a, sep, b) == [op |-> "separated_pair", ps |-> <<a, sep, b>>]

opt(f) == [op |-> "opt", f |-> f]

RECURSIVE Run(_, _)
RECURSIVE RunTuple(_, _)
RECURSIVE RunAlt(_, _)

\* nom::sequence::tuple, st being the input left and the values so far, r the
\* result of the parser just run: the first result that is not Ok is returned
TupleStep(ps, st, r) ==
  IF r.kind # "Ok" THEN r
  ELSE RunTuple(ps, Ok(r.rest, Append(st.value, r.value)))

RunTuple(ps, st) ==
  IF ps = << >> THEN st
  ELSE TupleStep(Tail(ps), st, Run(Head(ps), st.rest))

\* nom::branch::alt over nom::error::Error: the first alternative that does
\* not fail with Err::Error wins; when all fail the last error is returned
\* (Error::or keeps the other error, Error::append keeps it too).
AltStep(ps, i, r) ==
  IF r.kind # "Err" \/ ps = << >> THEN r ELSE RunAlt(ps, i)

RunAlt(ps, i) == AltStep(Tail(ps), i, Run(Head(ps), i))

\* nom::combinator::opt applied at i, r being the parser's result at i
Opt(r, i) ==
  IF r.kind = "Ok" THEN Ok(r.rest, Some(r.value))
  ELSE IF r.kind = "Err" THEN Ok(i, None)
  ELSE r

\* the value of preceded(a, b) is b's
Second(r) == IF r.kind # "Ok" THEN r ELSE Ok(r.rest, r.value[2])

\* the value of separated_pair(a, sep, b) is (a, b)
FirstAndThird(r) ==
  IF r.kind # "Ok" THEN r ELSE Ok(r.rest, <<r.value[1], r.value[3]>>)

(***************************************************************************)
(* Value parsers                                                           *)
(***************************************************************************)
\* .map(|(next_input, res)| (next_input, res.into())) of config_keys
ConfigKeysInto(r) ==
  IF r.kind # "Ok" THEN r
  ELSE IF ConfigKeysFrom(r.value) = Aborts
       THEN Panic("no other image types supported")
       ELSE Ok(r.rest, ConfigKeysFrom(r.value))

config_keys(i) ==
  ConfigKeysInto(Run(alt(<<tag(TagActive), tag(TagPassive)>>), i))

image_name(i) ==
  Run(preceded(tag(TagImageName),
               tuple(<<Fn("alphanumericwithhypen"), tag(TagItb)>>)), i)

\* res.1.parse::<u32>().expect("not a valid version number")
VersionExpect(r) ==
  IF r.kind # "Ok" THEN r
  ELSE IF ParseU32(r.value[2]) = None
       THEN Panic("not a valid version number")
       ELSE Ok(r.rest, ParseU32(r.value[2])[1])

image_version(i) ==
  VersionExpect(Run(preceded(tag(TagImageVersion),
                             separated_pair(tag(TagVer), tag(TagUnderscore),
                                            Fn("digit0"))), i))

\* .map(|(next_input, res)| (next_input, res.into())) of update_status
UpdateStatusInto(r) ==
  IF r.kind # "Ok" THEN r
  ELSE IF UpdateStatusFrom(r.value) = Aborts
       THEN Panic("invalid image state was set")
       ELSE Ok(r.rest, UpdateStatusFrom(r.value))

update_status(i) ==
  UpdateStatusInto(Run(preceded(tag(TagUpdateStatus),
                                alt(<<tag(TagUpdating), tag(TagTesting),
                                      tag(TagSuccess)>>)), i))

\* bool::from_str(res).expect("not a boolean value")
BoolExpect(r) ==
  IF r.kind # "Ok" THEN r
  ELSE IF BoolFromStr(r.value) = None
       THEN Panic("not a boolean value")
       ELSE Ok(r.rest, BoolFromStr(r.value)[1])

ready_for_update(i) ==
  BoolExpect(Run(preceded(tag(TagReadyForUpdate),
                          alt(<<tag(TagTrue), tag(TagFalse)>>)), i))

(***************************************************************************)
(* Record parsers and the driver                                           *)
(***************************************************************************)
\* the closure of active_config: the seven results become an ActiveConf
ActiveConfOf(r) ==
  IF r.kind # "Ok" THEN r
  ELSE Ok(r.rest, [active_config |-> r.value[2],
                   image_name |-> r.value[4],
                   image_version |-> r.value[6]])

active_config(i) ==
  ActiveConfOf(Run(tuple(<<Fn("multispace0"), Fn("config_keys"),
                           Fn("multispace0"), Fn("image_name"),
                           Fn("multispace0"), Fn("image_version"),
                           Fn("multispace0")>>), i))

\* the closure of passive_config: the eleven results become a PassiveConf
PassiveConfOf(r) ==
  IF r.kind # "Ok" THEN r
  ELSE Ok(r.rest, [passive_config |-> r.value[2],
                   ready_for_update_flag |-> r.value[4],
                   image_name |-> r.value[6],
                   image_version |-> r.value[8],
                   update_status |-> r.value[10]])

\* passive_config with opt forgotten around image_version
passive_config_version_required(i) ==
  PassiveConfOf(Run(tuple(<<Fn("multispace0"), Fn("config_keys"),
                            Fn("multispace0"), Fn("ready_for_update"),
                            Fn("multispace0"), opt(Fn("image_name")),
                            Fn("multispace0"), Fn("image_version"),
                            Fn("multispace0"), opt(Fn("update_status")),
                            Fn("multispace0")>>), i))

passive_config(i) ==
  PassiveConfOf(Run(tuple(<<Fn("multispace0"), Fn("config_keys"),
                            Fn("multispace0"), Fn("ready_for_update"),
                            Fn("multispace0"), opt(Fn("image_name")),
                            Fn("multispace0"), opt(Fn("image_version")),
                            Fn("multispace0"), opt(Fn("update_status")),
                            Fn("multispace0")>>), i))

\* parse_config with the two record parsers in the wrong order
parse_config_passive_first(i) ==
  Run(tuple(<<Fn("passive_config"), Fn("active_config")>>), i)

parse_config(i) ==
  Run(tuple(<<Fn("active_config"), Fn("passive_config")>>), i)

\* calling the function a parser value names
RunFn(name, i) ==
  IF name = "multispace0" THEN multispace0(i)
  ELSE IF name = "digit0" THEN digit0(i)
  ELSE IF name = "alphanumericwithhypen" THEN alphanumericwithhypen(i)
  ELSE IF name = "config_keys" THEN config_keys(i)
  ELSE IF name = "image_name" THEN image_name(i)
  ELSE IF name = "image_version" THEN image_version(i)
  ELSE IF name = "update_status" THEN update_status(i)
  ELSE IF name = "ready_for_update" THEN ready_for_update(i)
  ELSE IF name = "active_config" THEN active_config(i)
  ELSE passive_config(i)

Run(p, i) ==
  IF p.op = "tag" THEN Tag(p.t, i)
  ELSE IF p.op = "fn" THEN RunFn(p.name, i)
  ELSE IF p.op = "alt" THEN RunAlt(p.ps, i)
  ELSE IF p.op = "tuple" THEN RunTuple(p.ps, Ok(i, << >>))
  ELSE IF p.op = "preceded" THEN Second(RunTuple(p.ps, Ok(i, << >>)))
  ELSE IF p.op = "separated_pair" THEN FirstAndThird(RunTuple(p.ps, Ok(i, << >>)))
  ELSE Opt(Run(p.f, i), i)

(***************************************************************************)
(* Writing a configuration as text, in the canonical field order           *)
(***************************************************************************)
\* the decimal digits of a u32, most significant first, no leading zero
RECURSIVE U32ToDigits(_)
U32ToDigits(v) ==
  LET mid == (v[1] % 10) * LimbBase + v[2]
      q   == <<v[1] \div 10, mid \div 10>>
      d   == Digits[(mid % 10) + 1]
  IN IF q = <<0, 0>> THEN <<d>> ELSE Append(U32ToDigits(q), d)

NameField(n) == TagImageName \o n \o TagItb

DigitsField(ds) == TagImageVersion \o TagVer \o TagUnderscore \o ds

VersionField(v) == DigitsField(U32ToDigits(v))

FlagField(b) == TagReadyForUpdate \o (IF b THEN TagTrue ELSE TagFalse)

StatusToken(u) ==
  IF u = "Updating" THEN TagUpdating
  ELSE IF u = "Testing" THEN TagTesting
  ELSE TagSuccess

StatusField(u) == TagUpdateStatus \o StatusToken(u)

ActiveText(a, sep) ==
  TagActive \o sep \o NameField(a.image_name[1]) \o sep
            \o VersionField(a.image_version) \o sep

PassiveText(p, sep) ==
  TagPassive \o sep \o FlagField(p.ready_for_update_flag) \o sep
    \o (IF p.image_name = None THEN << >>
        ELSE NameField(p.image_name[1][1]) \o sep)
    \o (IF p.image_version = None THEN << >>
        ELSE VersionField(p.image_version[1]) \o sep)
    \o (IF p.update_status = None THEN << >>
        ELSE StatusField(p.update_status[1]) \o sep)

Serialize(c, sep) == ActiveText(c[1], sep) \o PassiveText(c[2], sep)

(***************************************************************************)
(* The texts the parsers are called on                                     *)
(***************************************************************************)
MaxWsLen == 2

MaxNameLen == 3

WsPattern == <<"\n", " ", "\t", "\r">>

NamePattern == <<"x", "-", "4", "Z">>

Cycle(pat, n) == [k \in 1..n |-> pat[((k - 1) % Len(pat)) + 1]]

\* whitespace runs of length 0..MaxWsLen
Seps == {Cycle(WsPattern, n) : n \in 0..MaxWsLen}

\* names of length 1..MaxNameLen over letters, digits and hyphens
Names == {Cycle(NamePattern, n) : n \in 1..MaxNameLen}

LongName == Cycle(NamePattern, MaxNameLen)

\* 0, 123, 612634867 and 4294967295 (u32::MAX)
Versions == {<<0, 0>>, <<0, 123>>, <<9348, 4339>>, <<65535, 65535>>}

Statuses == {"Updating", "Testing", "Success"}

Blah == <<"b", "l", "a", "h">>

NoneText == <<"n", "o", "n", "e">>

Trailers == {<< >>, Blah, <<"\t", "\r", "[", "]">>}

Headers == {TagActive, TagPassive}

BadHeaders ==
  {<<"a", "c", "t", "i", "v", "e", "]">>, <<"[", "]">>,
   <<"p", "r", "e", "f", "i", "x">> \o TagPassive,
   <<"[", "A", "c", "t", "i", "v", "e", "]">>}

NameFields == {NameField(n) : n \in Names}

\* an empty name, a name followed by another dot segment, a missing prefix
BadNameFields ==
  {TagImageName, TagImageName \o TagItb,
   TagImageName \o <<"e", "x", "a", "m", "p", "l", "e", ".", "o", "r", "g", ":", "8", "0", "8", "0">>,
   TagImageName \o <<"x", "-", "4", ".", "1", "2", "3">>,
   TagImageName \o <<"x", "_", "4">> \o TagItb,
   <<"n", "a", "m", "e", "=", "x">> \o TagItb}

VersionFields == {VersionField(v) : v \in Versions}

\* digit runs that str::parse::<u32> rejects: empty, u32::MAX + 1, 11 digits
BadDigitRuns ==
  {<< >>, <<"4", "2", "9", "4", "9", "6", "7", "2", "9", "6">>,
   <<"9", "9", "9", "9", "9", "9", "9", "9", "9", "9", "9">>}

DottedVersionField ==
  DigitsField(<<"1", "1", "1", ".", "2", "2", "2", ".", "3", "4", "5">>)

\* version fields that are not ver_<u32>
BadVersionFields ==
  {DigitsField(ds) : ds \in BadDigitRuns}
    \cup {TagImageVersion \o NoneText, TagImageVersion \o TagVer,
          DottedVersionField, DigitsField(<<"0", "0", "7">>)}

FlagFields == {FlagField(b) : b \in BOOLEAN}

BadFlagFields ==
  {TagReadyForUpdate, TagReadyForUpdate \o <<"m", "a", "y", "b", "e">>,
   TagReadyForUpdate \o <<"T", "r", "u", "e">>}

StatusFields == {StatusField(u) : u \in Statuses}

BadStatusFields ==
  {TagUpdateStatus \o NoneText, TagUpdateStatus,
   TagUpdateStatus \o <<"U", "p", "d", "a", "t", "i", "n", "g">>}

\* one field, followed by anything
FieldInputs ==
  {f \o t : f \in Headers \cup BadHeaders \cup NameFields \cup BadNameFields
                  \cup VersionFields \cup BadVersionFields
                  \cup FlagFields \cup BadFlagFields
                  \cup StatusFields \cup BadStatusFields \cup Seps,
            t \in Trailers}

\* an active block: header, name, version
ActiveInputs ==
  {s \o h \o s \o n \o s \o v \o s \o t :
     s \in Seps, h \in Headers \cup {<<"[", "]">>},
     n \in NameFields \cup {TagImageName, TagImageName \o <<"x", ".", "o">>},
     v \in VersionFields \cup {DigitsField(ds) : ds \in BadDigitRuns}
                         \cup {TagImageVersion \o NoneText},
     t \in {<< >>, Blah}}

\* What stands at the place of an optional field of a passive block: nothing
\* or a well-formed field (with the value it denotes), or a malformed field.
GoodOptNames ==
  {[text |-> << >>, value |-> None],
   [text |-> NameField(LongName), value |-> Some(<<LongName, TagItb>>)]}

BadOptNameTexts == {TagImageName, TagImageName \o <<"x", ".", "o">>}

GoodOptVersions ==
  {[text |-> << >>, value |-> None]}
    \cup {[text |-> VersionField(v), value |-> Some(v)] :
            v \in {<<0, 123>>, <<65535, 65535>>}}

BadOptVersionTexts ==
  {TagImageVersion \o NoneText} \cup {DigitsField(ds) : ds \in BadDigitRuns}

GoodOptStatuses ==
  {[text |-> << >>, value |-> None]}
    \cup {[text |-> StatusField(u), value |-> Some(u)] :
            u \in {"Updating", "Success"}}

BadOptStatusTexts == {TagUpdateStatus \o NoneText}

Texts(opts) == {o.text : o \in opts}

\* a passive block: header, flag, then the three optional fields
PassiveBlock(s, h, f, n, v, u, t) ==
  s \o h \o s \o f \o s \o n \o s \o v \o s \o u \o s \o t

PassiveInputs ==
  {PassiveBlock(s, h, f, n, v, u, t) :
     s \in Seps, h \in Headers, f \in FlagFields,
     n \in Texts(GoodOptNames) \cup BadOptNameTexts,
     v \in Texts(GoodOptVersions) \cup BadOptVersionTexts,
     u \in Texts(GoodOptStatuses) \cup BadOptStatusTexts,
     t \in {<< >>, Blah}}

\* an active block followed by a passive block
ConfigInputs ==
  {a \o p : a \in {s \o h \o s \o NameField(<<"x", "x">>) \o s \o v \o s :
                     s \in Seps, h \in Headers \cup {<<"[", "]">>},
                     v \in {VersionField(<<526, 16798>>), DigitsField(<< >>),
                            TagImageVersion \o NoneText}},
            p \in {h \o f \o n \o <<"\n">> \o v \o u \o t :
                     h \in Headers, f \in {FlagField(TRUE), TagReadyForUpdate},
                     n \in {NameField(<<"x", "x">>), TagImageName},
                     v \in {VersionField(<<526, 16799>>), DigitsField(<< >>)},
                     u \in {<< >>, StatusField("Updating")},
                     t \in {<< >>, Blah}}}

Inputs == FieldInputs \cup ActiveInputs \cup PassiveInputs \cup ConfigInputs

NoConf == << >>

\* the syntactically valid instances of the grammar
ActiveConfs ==
  [active_config : {"Active"}, image_name : {<<n, TagItb>> : n \in Names},
   image_version : Versions]

PassiveConfs ==
  [passive_config : {"Passive"}, ready_for_update_flag : BOOLEAN,
   image_name : {None} \cup {Some(<<n, TagItb>>) : n \in Names},
   image_version : {None} \cup {Some(v) : v \in Versions},
   update_status : {None} \cup {Some(u) : u \in Statuses}]

Confs == ActiveConfs \X PassiveConfs

(***************************************************************************)
(* The state machine: a text is drawn, one parser is called on it          *)
(***************************************************************************)
Init ==
  /\ conf = NoConf
  /\ input \in Inputs
  /\ called = "none"
  /\ result = NoResult

CallConfigKeys ==
  /\ called = "none"
  /\ called' = "config_keys"
  /\ result' = config_keys(input)
  /\ UNCHANGED <<conf, input>>

CallImageName ==
  /\ called = "none"
  /\ called' = "image_name"
  /\ result' = image_name(input)
  /\ UNCHANGED <<conf, input>>

CallImageVersion ==
  /\ called = "none"
  /\ called' = "image_version"
  /\ result' = image_version(input)
  /\ UNCHANGED <<conf, input>>

CallUpdateStatus ==
  /\ called = "none"
  /\ called' = "update_status"
  /\ result' = update_status(input)
  /\ UNCHANGED <<conf, input>>

CallReadyForUpdate ==
  /\ called = "none"
  /\ called' = "ready_for_update"
  /\ result' = ready_for_update(input)
  /\ UNCHANGED <<conf, input>>

CallActiveConfig ==
  /\ called = "none"
  /\ called' = "active_config"
  /\ result' = active_config(input)
  /\ UNCHANGED <<conf, input>>

CallPassiveConfig ==
  /\ called = "none"
  /\ called' = "passive_config"
  /\ result' = passive_config(input)
  /\ UNCHANGED <<conf, input>>

CallParseConfig ==
  /\ called = "none"
  /\ called' = "parse_config"
  /\ result' = parse_config(input)
  /\ UNCHANGED <<conf, input>>

Next ==
  \/ CallConfigKeys
  \/ CallImageName
  \/ CallImageVersion
  \/ CallUpdateStatus
  \/ CallReadyForUpdate
  \/ CallActiveConfig
  \/ CallPassiveConfig
  \/ CallParseConfig

Spec == Init /\ [][Next]_vars

(***************************************************************************)
(* Round trip: a valid pair of records is written as text, its fields      *)
(* separated by whitespace, and the text is parsed                         *)
(***************************************************************************)
InitRoundTrip ==
  /\ conf \in Confs
  /\ input = << >>
  /\ called = "none"
  /\ result = NoResult

WriteConfig(sep) ==
  /\ called = "none"
  /\ conf # NoConf
  /\ called' = "written"
  /\ input' = Serialize(conf, sep)
  /\ UNCHANGED <<conf, result>>

ParseWritten ==
  /\ called = "written"
  /\ called' = "parse_config"
  /\ result' = parse_config(input)
  /\ UNCHANGED <<conf, input>>

NextRoundTrip ==
  \/ \E sep \in Seps \ {<< >>} : WriteConfig(sep)
  \/ ParseWritten

SpecRoundTrip == InitRoundTrip /\ [][NextRoundTrip]_vars

(***************************************************************************)
(* Properties                                                              *)
(***************************************************************************)

\* C1: parse_config runs active_config on the input and passive_config on
\* exactly the remainder active_config returned. It succeeds iff both do,
\* with both records and passive_config's remainder; when active_config does
\* not succeed its outcome is returned, and otherwise, when passive_config
\* does not succeed, passive_config's outcome is returned.
C1_ParseConfigSequences ==
  called = "parse_config" =>
    LET a == active_config(input)
    IN IF a.kind # "Ok" THEN result = a
       ELSE LET p == passive_config(a.rest)
            IN IF p.kind # "Ok" THEN result = p
               ELSE result = Ok(p.rest, <<a.value, p.value>>)

\* both records parsed, and a remainder that is not empty
C1_Witness ==
  /\ called = "parse_config"
  /\ result.kind = "Ok"
  /\ result.rest # << >>
  /\ active_config(input).rest # result.rest

\* C2: every ActiveConf returned has active_config = Active and every
\* PassiveConf returned has passive_config = Passive, whether the record
\* parsers are called directly or through parse_config.
C2_RecordTagsMatch ==
  /\ (called = "active_config" /\ result.kind = "Ok")
       => result.value.active_config = "Active"
  /\ (called = "passive_config" /\ result.kind = "Ok")
       => result.value.passive_config = "Passive"
  /\ (called = "parse_config" /\ result.kind = "Ok")
       => /\ result.value[1].active_config = "Active"
          /\ result.value[2].passive_config = "Passive"

\* C3: image_version, called directly or through active_config,
\* passive_config or parse_config, returns a success or an error value and
\* never aborts; on image_version=ver_ followed by an empty digit run or by a
\* digit run above 4294967295 it returns an error value.
C3_VersionNeverAborts ==
  /\ called \in {"image_version", "active_config", "passive_config", "parse_config"}
       => result.kind \in {"Ok", "Err"}
  /\ (called = "image_version"
        /\ \E ds \in BadDigitRuns, t \in Trailers : input = DigitsField(ds) \o t)
       => result.kind = "Err"

\* C4: image_version returns an error on image_version=ver_ followed by a
\* digit run, a '.' and further characters (image_version=ver_111.222.345).
C4_DottedVersionIsError ==
  (called = "image_version"
     /\ Len(input) >= Len(DottedVersionField)
     /\ SubSeq(input, 1, Len(DottedVersionField)) = DottedVersionField)
    => result.kind = "Err"

\* The passive blocks in which an optional field is unmatched, with what C5
\* says of each: the first unmatched field and all that follows it are the
\* remainder, the fields before it are as written, the others are None.
C5_Cases ==
  {[text |-> PassiveBlock(s, TagPassive, FlagField(f), n, v, u, t),
    rest |-> n \o s \o v \o s \o u \o s \o t,
    conf |-> [passive_config |-> "Passive", ready_for_update_flag |-> f,
              image_name |-> None, image_version |-> None,
              update_status |-> None]] :
     s \in Seps, f \in BOOLEAN, n \in BadOptNameTexts,
     v \in Texts(GoodOptVersions) \cup BadOptVersionTexts,
     u \in Texts(GoodOptStatuses) \cup BadOptStatusTexts,
     t \in {<< >>, Blah}}
  \cup
  {[text |-> PassiveBlock(s, TagPassive, FlagField(f), n.text, v, u, t),
    rest |-> v \o s \o u \o s \o t,
    conf |-> [passive_config |-> "Passive", ready_for_update_flag |-> f,
              image_name |-> n.value, image_version |-> None,
              update_status |-> None]] :
     s \in Seps, f \in BOOLEAN, n \in GoodOptNames, v \in BadOptVersionTexts,
     u \in Texts(GoodOptStatuses) \cup BadOptStatusTexts,
     t \in {<< >>, Blah}}
  \cup
  {[text |-> PassiveBlock(s, TagPassive, FlagField(f), n.text, v.text, u, t),
    rest |-> u \o s \o t,
    conf |-> [passive_config |-> "Passive", ready_for_update_flag |-> f,
              image_name |-> n.value, image_version |-> v.value,
              update_status |-> None]] :
     s \in Seps, f \in BOOLEAN, n \in GoodOptNames, v \in GoodOptVersions,
     u \in BadOptStatusTexts, t \in {<< >>, Blah}}

\* C5: in passive_config an optional field whose sub-parser does not succeed
\* is reported as None and consumes nothing; its text stays verbatim in the
\* remainder and passive_config succeeds, for every malformed field text.
C5_UnmatchedFieldLeftVerbatim ==
  called = "passive_config" =>
    \A c \in C5_Cases : input = c.text => result = Ok(c.rest, c.conf)

\* C6: config_keys yields Active and removes exactly the 8 characters of
\* [active], or yields Passive and removes exactly the 9 characters of
\* [passive]; on any other input it fails with an error that carries the
\* whole input.
C6_ConfigKeysExact ==
  called = "config_keys" =>
    IF Len(input) >= 8 /\ SubSeq(input, 1, 8) = TagActive
    THEN result = Ok(SubSeq(input, 9, Len(input)), "Active")
    ELSE IF Len(input) >= 9 /\ SubSeq(input, 1, 9) = TagPassive
         THEN result = Ok(SubSeq(input, 10, Len(input)), "Passive")
         ELSE result.kind = "Err" /\ result.input = input

\* [passive] followed by more text
C6_Witness ==
  /\ called = "config_keys"
  /\ result.kind = "Ok"
  /\ result.value = "Passive"
  /\ result.rest # << >>
  /\ Len(result.rest) + 9 = Len(input)

C7_NameChars ==
  {"a", "b", "c", "d", "e", "f", "g", "h", "i", "j", "k", "l", "m",
   "n", "o", "p", "q", "r", "s", "t", "u", "v", "w", "x", "y", "z",
   "A", "B", "C", "D", "E", "F", "G", "H", "I", "J", "K", "L", "M",
   "N", "O", "P", "Q", "R", "S", "T", "U", "V", "W", "X", "Y", "Z",
   "0", "1", "2", "3", "4", "5", "6", "7", "8", "9", "-"}

\* the length of the maximal run of letters, digits and hyphens t starts with
C7_NameRun(t) ==
  CHOOSE n \in 0..Len(t) :
    /\ \A k \in 1..n : t[k] \in C7_NameChars
    /\ n = Len(t) \/ t[n + 1] \notin C7_NameChars

\* C7: image_name succeeds iff the input is image_name=, a non-empty maximal
\* run N of letters, digits and hyphens, and .itb; it then yields (N, ".itb")
\* and the text after .itb. When N is not followed by .itb the error carries
\* the input from the character right after N.
C7_ImageNameExact ==
  called = "image_name" =>
    IF ~(Len(input) >= 11 /\ SubSeq(input, 1, 11) = TagImageName)
    THEN result.kind = "Err"
    ELSE LET after == SubSeq(input, 12, Len(input))
             n     == C7_NameRun(after)
             tail  == SubSeq(after, n + 1, Len(after))
         IN IF n = 0 THEN result.kind = "Err"
            ELSE IF Len(tail) >= 4 /\ SubSeq(tail, 1, 4) = TagItb
                 THEN result = Ok(SubSeq(tail, 5, Len(tail)),
                                  <<SubSeq(after, 1, n), TagItb>>)
                 ELSE result.kind = "Err" /\ result.input = tail

\* a name with a hyphen, followed by a further dot segment
C7_Witness ==
  /\ called = "image_name"
  /\ result.kind = "Err"
  /\ Len(input) > 14
  /\ SubSeq(input, 1, 11) = TagImageName
  /\ input[13] = "-"
  /\ result.input # << >>
  /\ result.input[1] = "."

\* C8: a valid pair of records written as text in the canonical field order,
\* its fields separated by whitespace, parses back to the same pair with an
\* empty remainder.
C8_RoundTrip ==
  (called = "parse_config" /\ conf # NoConf) => result = Ok(<< >>, conf)

\* u32::MAX in the active record, a passive record with a version and no name
C8_Witness ==
  /\ called = "parse_config"
  /\ conf # NoConf
  /\ result = Ok(<< >>, conf)
  /\ conf[1].image_version = <<65535, 65535>>
  /\ conf[2].image_name = None
  /\ conf[2].image_version # None
  /\ conf[2].update_status = None

\* the passive blocks with a valid header and flag and any subset of
\* well-formed optional fields, in order, and the record each denotes
C9_Cases ==
  {[text |-> PassiveBlock(s, TagPassive, FlagField(f), n.text, v.text, u.text, << >>),
    conf |-> [passive_config |-> "Passive", ready_for_update_flag |-> f,
              image_name |-> n.value, image_version |-> v.value,
              update_status |-> u.value]] :
     s \in Seps, f \in BOOLEAN, n \in GoodOptNames, v \in GoodOptVersions,
     u \in GoodOptStatuses}

\* C9: passive_config tries the three optional fields independently, in the
\* order image_name, image_version, update_status: the result has Some
\* exactly for the fields present, and the remainder is empty.
C9_OptionalFieldsIndependent ==
  called = "passive_config" =>
    \A c \in C9_Cases : input = c.text => result = Ok(<< >>, c.conf)

\* a version without a name, and a status without the other two
C9_Witness ==
  /\ called = "passive_config"
  /\ result.kind = "Ok"
  /\ result.rest = << >>
  /\ result.value.image_name = None
  /\ result.value.image_version # None
  /\ result.value.update_status = None
  /\ \E c \in C9_Cases : input = c.text

\* C10: the aborting branches of ConfigKeys::from, UpdateStatus::from and of
\* the boolean conversion are never reached; an unrecognised header, status
\* token or boolean yields an error value.
C10_ConversionsNeverAbort ==
  /\ result.kind = "Panic"
       => result.msg \notin {"no other image types supported",
                             "invalid image state was set",
                             "not a boolean value"}
  /\ (called = "config_keys"
        /\ \E h \in BadHeaders, t \in Trailers : input = h \o t)
       => result.kind = "Err"
  /\ (called = "update_status"
        /\ \E u \in BadStatusFields, t \in Trailers : input = u \o t)
       => result.kind = "Err"
  /\ (called = "ready_for_update"
        /\ \E f \in BadFlagFields, t \in Trailers : input = f \o t)
       => result.kind = "Err"

\* update_status=none is an error value
C10_Witness ==
  /\ called = "update_status"
  /\ input = TagUpdateStatus \o NoneText
  /\ result = Err(NoneText, "Tag")

====
